---- MODULE Spec2Model ----
(***************************************************************************)
(* A model of getEpgs.py: the allow-list resolver, the retrying fetcher    *)
(* and the streaming filter/merge of XMLTV sources into one output file.   *)
(*                                                                         *)
(* Python values.  A str is a TLA+ string.  A value that may be None (the  *)
(* result of elem.get, of fetch_with_retry, of parse_xmltv_time) is a      *)
(* tuple: <<>> is None and <<v>> is the value v.  An element is a record    *)
(* [tag, attrib] whose attrib is the dict of its attributes; its body is   *)
(* opaque payload and is not modelled.  A datetime is a record             *)
(* [ord, sec, us]: proleptic Gregorian ordinal of the day, second of the   *)
(* day, microsecond.                                                       *)
(***************************************************************************)
EXTENDS Integers, Sequences, FiniteSets, TLC

(***************************************************************************)
(* Bounds of the model.                                                    *)
(***************************************************************************)
\* the most channel and programme elements all sources yield in one run
MaxElems == 2
\* the most lines a playlist yields
MaxLines == 2

(***************************************************************************)
(* Module-level configuration, lines 10-15.  max_retries and retry_delay   *)
(* are fixed; the three filter options are the values a run is started     *)
(* with (Configs lists the ones explored, the first is the file's own).    *)
(***************************************************************************)
max_retries == 5
retry_delay == 5

Configs ==
    { [days_future |-> 0, days_past |-> 1, skip_dummy_programs |-> FALSE],
      [days_future |-> 1, days_past |-> 0, skip_dummy_programs |-> TRUE],
      [days_future |-> 1, days_past |-> 1, skip_dummy_programs |-> TRUE] }

None == <<>>
Some(v) == <<v>>

(***************************************************************************)
(* Strings: str(), str.lower(), `in`, str.endswith, slicing.               *)
(***************************************************************************)
\* str(x) as an f-string renders it: None is rendered as the text None
Str(x) == IF x = None THEN "None" ELSE x[1]

LowerChar(c) ==
    CASE c = "D" -> "d" [] c = "U" -> "u" [] c = "M" -> "m" [] c = "Y" -> "y"
      [] c = "A" -> "a" [] c = "B" -> "b" [] c = "C" -> "c" [] c = "X" -> "x"
      [] OTHER -> c

RECURSIVE Lower(_)
Lower(s) == IF Len(s) = 0 THEN "" ELSE LowerChar(SubSeq(s, 1, 1)) \o Lower(Tail(s))

\* sub in s
Contains(s, sub) ==
    \E i \in 1..(Len(s) - Len(sub) + 1) : SubSeq(s, i, i + Len(sub) - 1) = sub

EndsWith(s, suffix) ==
    /\ Len(s) >= Len(suffix)
    /\ SubSeq(s, Len(s) - Len(suffix) + 1, Len(s)) = suffix

\* s[:n]
Prefix(s, n) == IF Len(s) <= n THEN s ELSE SubSeq(s, 1, n)

(***************************************************************************)
(* datetime: strptime(date_part, '%Y%m%d%H%M%S'), timedelta(days=n),       *)
(* comparison.  strptime turns the format into the regular expression      *)
(*   (\d\d\d\d)(1[0-2]|0[1-9]|[1-9])(3[0-1]|[1-2]\d|0[1-9]|[1-9]| [1-9])   *)
(*   (2[0-3]|[0-1]\d|\d)([0-5]\d|\d)(6[0-1]|[0-5]\d|\d)                    *)
(* takes the first match the backtracking search finds at the start of the *)
(* string, raises when text remains after it, and raises when the fields   *)
(* are not a date and a time.  A string of fewer than fourteen digits can  *)
(* therefore be accepted, its digits shared out among the fields.          *)
(***************************************************************************)
Digits == {"0", "1", "2", "3", "4", "5", "6", "7", "8", "9"}

DigitVal(c) ==
    CASE c = "0" -> 0 [] c = "1" -> 1 [] c = "2" -> 2 [] c = "3" -> 3 [] c = "4" -> 4
      [] c = "5" -> 5 [] c = "6" -> 6 [] c = "7" -> 7 [] c = "8" -> 8 [] c = "9" -> 9

AllDigits(s) == \A i \in 1..Len(s) : SubSeq(s, i, i) \in Digits

RECURSIVE ToInt(_)
ToInt(s) ==
    IF Len(s) = 0 THEN 0
    ELSE 10 * ToInt(SubSeq(s, 1, Len(s) - 1)) + DigitVal(SubSeq(s, Len(s), Len(s)))

IsLeap(y) == (y % 4 = 0) /\ ((y % 100 # 0) \/ (y % 400 = 0))

DaysInMonth(y, m) ==
    CASE m \in {1, 3, 5, 7, 8, 10, 12} -> 31
      [] m \in {4, 6, 9, 11} -> 30
      [] OTHER -> IF IsLeap(y) THEN 29 ELSE 28

RECURSIVE DaysBeforeMonth(_, _)
DaysBeforeMonth(y, m) ==
    IF m = 1 THEN 0 ELSE DaysBeforeMonth(y, m - 1) + DaysInMonth(y, m - 1)

\* date.toordinal(): 1 is 0001-01-01
Ordinal(y, m, d) ==
    365 * (y - 1) + ((y - 1) \div 4) - ((y - 1) \div 100) + ((y - 1) \div 400)
      + DaysBeforeMonth(y, m) + d

\* the first n characters of s are digits and their number is in lo..hi
DigitsIn(s, n, lo, hi) ==
    /\ Len(s) >= n
    /\ AllDigits(SubSeq(s, 1, n))
    /\ ToInt(SubSeq(s, 1, n)) >= lo
    /\ ToInt(SubSeq(s, 1, n)) <= hi

\* the lengths of the prefixes of s the group of directive k can match, in the
\* order the alternatives of the group are tried; k is 1 for %Y .. 6 for %S
FieldWidths(k, s) ==
    LET two(lo, hi) == IF DigitsIn(s, 2, lo, hi) THEN << 2 >> ELSE << >>
        one(lo) == IF DigitsIn(s, 1, lo, 9) THEN << 1 >> ELSE << >>
        blank == IF Len(s) >= 2 /\ SubSeq(s, 1, 1) = " " /\ DigitsIn(SubSeq(s, 2, 2), 1, 1, 9)
                 THEN << 2 >> ELSE << >>
    IN  CASE k = 1 -> IF DigitsIn(s, 4, 0, 9999) THEN << 4 >> ELSE << >>
          [] k = 2 -> two(1, 12) \o one(1)
          [] k = 3 -> two(1, 31) \o one(1) \o blank
          [] k = 4 -> two(0, 23) \o one(0)
          [] k = 5 -> two(0, 59) \o one(0)
          [] k = 6 -> two(0, 61) \o one(0)

\* the first match of the groups k..6 at the start of s: None, or the matched
\* fields followed by the text that remains.  MatchWidths tries the widths of
\* group k in turn and goes back to the next when the later groups do not match.
RECURSIVE MatchFrom(_, _)
RECURSIVE MatchWidths(_, _, _)
MatchWidths(k, s, widths) ==
    IF widths = << >> THEN None
    ELSE LET later == MatchFrom(k + 1, SubSeq(s, Head(widths) + 1, Len(s)))
         IN  IF later # None THEN Some(<< SubSeq(s, 1, Head(widths)) >> \o later[1])
             ELSE MatchWidths(k, s, Tail(widths))

MatchFrom(k, s) == IF k > 6 THEN Some(<< s >>) ELSE MatchWidths(k, s, FieldWidths(k, s))

\* int() of a matched field; the day may be written with a leading blank
FieldVal(f) == IF SubSeq(f, 1, 1) = " " THEN ToInt(Tail(f)) ELSE ToInt(f)

\* datetime.strptime(s, '%Y%m%d%H%M%S'): Some(datetime), or None where it raises
Strptime(s) ==
    LET found == MatchFrom(1, s)
    IN  IF found = None THEN None
        ELSE IF found[1][7] # "" THEN None
        ELSE LET y  == FieldVal(found[1][1])
                 mo == FieldVal(found[1][2])
                 d  == FieldVal(found[1][3])
                 h  == FieldVal(found[1][4])
                 mi == FieldVal(found[1][5])
                 se == FieldVal(found[1][6])
             IN  IF /\ y >= 1
                    /\ mo \in 1..12
                    /\ d >= 1
                    /\ d <= DaysInMonth(y, mo)
                    /\ h <= 23
                    /\ mi <= 59
                    /\ se <= 59
                 THEN Some([ord |-> Ordinal(y, mo, d), sec |-> 3600 * h + 60 * mi + se, us |-> 0])
                 ELSE None

\* dt + timedelta(days=n); n may be negative
PlusDays(dt, n) == [dt EXCEPT !.ord = dt.ord + n]

\* a < b on datetimes
Before(a, b) ==
    \/ a.ord < b.ord
    \/ a.ord = b.ord /\ a.sec < b.sec
    \/ a.ord = b.ord /\ a.sec = b.sec /\ a.us < b.us

parse_xmltv_time(time_str) ==
    IF time_str = None \/ time_str = Some("") THEN None
    ELSE Strptime(Prefix(time_str[1], 14))

is_programme_too_far_future(start_time_str, days_limit, clock) ==
    IF days_limit <= 0 THEN FALSE
    ELSE LET start_time == parse_xmltv_time(start_time_str)
         IN  IF start_time = None THEN FALSE
             ELSE Before(PlusDays(clock, days_limit), start_time[1])

is_programme_too_far_past(stop_time_str, days_limit, clock) ==
    IF days_limit <= 0 THEN FALSE
    ELSE LET stop_time == parse_xmltv_time(stop_time_str)
         IN  IF stop_time = None THEN FALSE
             ELSE Before(stop_time[1], PlusDays(clock, 0 - days_limit))

\* the letter case is not folded
is_dummy_programme_CaseSensitive(tvg_id, skip_dummy_programs) ==
    IF ~skip_dummy_programs THEN FALSE
    ELSE IF tvg_id = None \/ tvg_id = Some("") THEN FALSE
    ELSE Contains(tvg_id[1], "dummy")

is_dummy_programme(tvg_id, skip_dummy_programs) ==
    IF ~skip_dummy_programs THEN FALSE
    ELSE IF tvg_id = None \/ tvg_id = Some("") THEN FALSE
    ELSE Contains(Lower(tvg_id[1]), "dummy")

(***************************************************************************)
(* The inputs of a run: the URL lists (lines 341-356), the elements an     *)
(* XMLTV stream can yield, the lines a playlist can yield, the contents of *)
(* tvg-ids.txt.                                                            *)
(***************************************************************************)
\* a compressed and a plain source of the list; a run is given none, the first
\* or both
EpgUrlPool ==
    << "https://raw.githubusercontent.com/matthuisman/i.mjh.nz/refs/heads/master/Plex/all.xml.gz",
       "https://raw.githubusercontent.com/BuddyChewChew/localnow-playlist-generator/refs/heads/main/epg.xml" >>

PlaylistUrlPool ==
    << "https://github.com/Drewski2423/DrewLive/raw/refs/heads/main/MergedPlaylist.m3u8" >>

EmptyDict == [k \in {} |-> ""]

\* elem.get(key)
Get(elem, key) == IF key \in DOMAIN elem.attrib THEN Some(elem.attrib[key]) ELSE None

\* the dict with the given optional values under the given keys
Attr(key, v) == IF v = None THEN EmptyDict ELSE [k \in {key} |-> v[1]]

\* the id of a channel: missing, or a
IdValues == {None, Some("a")}
ChannelElems == { [tag |-> "channel", attrib |-> Attr("id", i)] : i \in IdValues }

Programme(c, s, e) ==
    [tag |-> "programme", attrib |-> Attr("channel", c) @@ Attr("start", s) @@ Attr("stop", e)]

\* the start 13:00 of the day of the run and the start 12:30 of the next day, the
\* stop 14:00 of the day of the run and the stop 11:30 of the day before
Soon == Some("20261102130000")
Far == Some("20261103123000 +0000")
Fresh == Some("20261102140000")
Old == Some("20261101113000")

ProgrammeElems ==
    { Programme(Some("a"), Soon, Fresh), Programme(Some("a"), Soon, Old),
      Programme(Some("a"), Far, Old), Programme(Some("Dummy1"), Far, Fresh),
      Programme(None, Far, Old) }

\* every other element iterparse reports: the root, the children of an element
OtherElems == { [tag |-> "display-name", attrib |-> EmptyDict] }

\* re.findall(r'tvg-id="([^"]+)"', line, re.IGNORECASE) of one playlist line
LineMatches == { {}, {"a"} }

\* tvg-ids.txt: absent (None), or the set of its stripped non-blank lines
FileContents == { None, Some({"a"}) }

\* what one requests.get can do: raise, or answer with a status code
GetOutcomes == { "Timeout", "ConnectionError", "RequestException", "200", "204", "404" }

\* what datetime.now() returns during the run: 2026-11-02 12:00:00.  The windows
\* are whole days and a run lasts minutes: the clock is read as one value.
StartOfRun == [ord |-> Ordinal(2026, 11, 2), sec |-> 12 * 3600, us |-> 0]

ZeroStats ==
    [ total_channels_in_sources |-> 0, total_programmes_in_sources |-> 0,
      channels_filtered_by_tvg_id |-> 0, programmes_filtered_by_tvg_id |-> 0,
      programmes_filtered_by_future |-> 0, programmes_filtered_by_past |-> 0,
      programmes_filtered_by_dummy |-> 0 ]

\* the counters stream_parse_epg keeps for one source, lines 160-166
ZeroLocals ==
    [ channels_added |-> 0, channels_filtered |-> 0, programmes_added |-> 0,
      programmes_filtered_tvg |-> 0, programmes_skipped_future |-> 0,
      programmes_skipped_past |-> 0, programmes_skipped_dummy |-> 0 ]

VARIABLES
    cfg,              \* days_future, days_past, skip_dummy_programs
    epg_urls,         \* the list filter_and_build_epg is called with
    playlist_urls,    \* the playlists get_valid_tvg_ids is called with
    now,              \* what datetime.now() returns
    pc,               \* where the run is
    valid_tvg_ids,    \* the allow-list
    pl,               \* index of the playlist being read, 0 before the first
    tvg_ids,          \* extract_tvg_ids_from_playlist's set
    nlines,           \* lines read from the current playlist
    caller,           \* who called fetch_with_retry: "playlist" or "epg"
    attempt,          \* fetch_with_retry's loop variable
    status,           \* response.status_code of the attempt just made: "none" when
                      \* requests.get raised and outside fetch_with_retry
    response,         \* the response held: "none", "open", "closed"
    leaked,           \* responses dropped without a close
    src,              \* index of the source being processed, 0 before the first
    sink,             \* the output file: "unopened", "open", "closed"
    output,           \* what was written to it, in order
    seen_channels,
    seen_programmes,
    stats,
    locals,           \* the per-source counters of stream_parse_epg
    consumed,         \* history: the elements handled, each with its source
    outcome,          \* history: how the last source that ended did end; before
                      \* the first one, whether the last playlist broke off
    attempted         \* history: the URLs process_epg_source was called with

vars ==
    << cfg, epg_urls, playlist_urls, now, pc, valid_tvg_ids, pl, tvg_ids, nlines,
       caller, attempt, status, response, leaked, src, sink, output, seen_channels,
       seen_programmes, stats, locals, consumed, outcome, attempted >>

config_vars == << cfg, epg_urls, playlist_urls >>
clock_vars == << now >>
resolver_vars == << valid_tvg_ids, pl, tvg_ids, nlines >>
fetch_vars == << caller, attempt, status, response, leaked >>
merge_vars == << output, seen_channels, seen_programmes, stats, locals, consumed >>

Init ==
    /\ cfg \in Configs
    /\ \E n \in 0..Len(EpgUrlPool) : epg_urls = SubSeq(EpgUrlPool, 1, n)
    /\ playlist_urls = PlaylistUrlPool
    /\ now = StartOfRun
    /\ pc = "get_valid_tvg_ids"
    /\ valid_tvg_ids = {}
    /\ pl = 0
    /\ tvg_ids = {}
    /\ nlines = 0
    /\ caller = "none"
    /\ attempt = 0
    /\ status = "none"
    /\ response = "none"
    /\ leaked = 0
    /\ src = 0
    /\ sink = "unopened"
    /\ output = << >>
    /\ seen_channels = {}
    /\ seen_programmes = {}
    /\ stats = ZeroStats
    /\ locals = ZeroLocals
    /\ consumed = << >>
    /\ outcome = "none"
    /\ attempted = << >>

(***************************************************************************)
(* get_valid_tvg_ids and extract_tvg_ids_from_playlist, lines 99-146.      *)
(***************************************************************************)
\* a response that goes out of scope: 1 if nobody closed it
Dropped(r) == IF r = "open" THEN 1 ELSE 0

\* lines 123-133: the file's ids, nothing when it is absent or unreadable
ReadIdsFile ==
    /\ pc = "get_valid_tvg_ids"
    /\ \E file \in FileContents, readable \in BOOLEAN :
           valid_tvg_ids' = IF file = None \/ ~readable THEN {} ELSE file[1]
    /\ pc' = "playlists"
    /\ UNCHANGED << config_vars, clock_vars, pl, tvg_ids, nlines, fetch_vars, src, sink,
                    merge_vars, outcome, attempted >>

\* lines 137-138, 101-103: the next playlist, its fetch begins
NextPlaylist ==
    /\ pc = "playlists"
    /\ pl < Len(playlist_urls)
    /\ pl' = pl + 1
    /\ tvg_ids' = {}
    /\ nlines' = 0
    /\ caller' = "playlist"
    /\ attempt' = 1
    /\ status' = "none"
    /\ outcome' = "none"
    /\ pc' = "fetch"
    /\ UNCHANGED << config_vars, clock_vars, valid_tvg_ids, response, leaked, src, sink,
                    merge_vars, attempted >>

\* lines 104-106, 139: no response, the playlist gives the empty set
PlaylistFetchFailed ==
    /\ pc = "fetched"
    /\ caller = "playlist"
    /\ response = "none"
    /\ valid_tvg_ids' = valid_tvg_ids \cup tvg_ids
    /\ caller' = "none"
    /\ attempt' = 0
    /\ status' = "none"
    /\ pc' = "playlists"
    /\ UNCHANGED << config_vars, clock_vars, pl, tvg_ids, nlines, response, leaked, src,
                    sink, merge_vars, outcome, attempted >>

\* lines 104, 108-109: a response, its lines are read
BeginScan ==
    /\ pc = "fetched"
    /\ caller = "playlist"
    /\ response # "none"
    /\ attempt' = 0
    /\ status' = "none"
    /\ pc' = "iter_lines"
    /\ UNCHANGED << config_vars, clock_vars, resolver_vars, caller, response, leaked, src,
                    sink, merge_vars, outcome, attempted >>

\* lines 109-112: one line of the playlist
ScanLine ==
    /\ pc = "iter_lines"
    /\ nlines < MaxLines
    /\ \E matches \in LineMatches : tvg_ids' = tvg_ids \cup matches
    /\ nlines' = nlines + 1
    /\ UNCHANGED << config_vars, clock_vars, pc, valid_tvg_ids, pl, fetch_vars, src, sink,
                    merge_vars, outcome, attempted >>

\* lines 119, 139: the set is returned and joins the allow-list
ReturnTvgIds(how) ==
    /\ valid_tvg_ids' = valid_tvg_ids \cup tvg_ids
    /\ outcome' = how
    /\ tvg_ids' = {}
    /\ nlines' = 0
    /\ leaked' = leaked + Dropped(response)
    /\ response' = "none"
    /\ caller' = "none"
    /\ pc' = "playlists"
    /\ UNCHANGED << config_vars, clock_vars, pl, attempt, status, src, sink, merge_vars,
                    attempted >>

\* lines 109, 114, 119: the playlist ends
ScanEnd ==
    /\ pc = "iter_lines"
    /\ ReturnTvgIds(outcome)

\* lines 116-119: iter_lines raises (the connection breaks, the text does not decode)
ScanError ==
    /\ pc = "iter_lines"
    /\ ReturnTvgIds("scan_error")

\* lines 141-146, 271-296: the allow-list is resolved
ResolverDone ==
    /\ pc = "playlists"
    /\ pl = Len(playlist_urls)
    /\ pc' = "open"
    /\ UNCHANGED << config_vars, clock_vars, resolver_vars, fetch_vars, src, sink,
                    merge_vars, outcome, attempted >>

(***************************************************************************)
(* fetch_with_retry, lines 71-97: one pass of its loop.                    *)
(***************************************************************************)
\* the loop runs once more than max_retries
fetch_with_retry_OneMore ==
    /\ pc = "fetch"
    /\ \E o \in GetOutcomes :
          IF o = "200"
          THEN /\ response' = "open"
               /\ status' = o
               /\ leaked' = leaked
               /\ attempt' = attempt
               /\ pc' = "fetched"
          ELSE /\ leaked' = leaked + (IF o \in {"204", "404"} THEN Dropped("closed") ELSE 0)
               /\ response' = "none"
               /\ status' = IF o \in {"204", "404"} THEN o ELSE "none"
               /\ IF attempt <= max_retries
                  THEN /\ attempt' = attempt + 1
                       /\ pc' = "fetch"
                  ELSE /\ attempt' = attempt
                       /\ pc' = "fetched"
    /\ UNCHANGED << config_vars, clock_vars, resolver_vars, caller, src, sink, merge_vars,
                    outcome, attempted >>

fetch_with_retry ==
    /\ pc = "fetch"
    /\ \E o \in GetOutcomes :
          IF o = "200"
          THEN \* lines 79-80
               /\ response' = "open"
               /\ status' = o
               /\ leaked' = leaked
               /\ attempt' = attempt
               /\ pc' = "fetched"
          ELSE \* lines 81-83: a response with another status is closed; 85-90: none
               /\ leaked' = leaked + (IF o \in {"204", "404"} THEN Dropped("closed") ELSE 0)
               /\ response' = "none"
               /\ status' = IF o \in {"204", "404"} THEN o ELSE "none"
               /\ IF attempt < max_retries
                  THEN \* lines 92-94
                       /\ attempt' = attempt + 1
                       /\ pc' = "fetch"
                  ELSE \* lines 96-97
                       /\ attempt' = attempt
                       /\ pc' = "fetched"
    /\ UNCHANGED << config_vars, clock_vars, resolver_vars, caller, src, sink, merge_vars,
                    outcome, attempted >>

(***************************************************************************)
(* filter_and_build_epg, write_xml_header, write_xml_footer,               *)
(* process_epg_source and stream_parse_epg, lines 148-338.                 *)
(***************************************************************************)
Text(t) == [kind |-> "text", text |-> t]

\* '  ' + ET.tostring(elem, encoding='unicode') + '\n'
Written(elem) == [kind |-> "elem", elem |-> elem]

\* the root element is not opened
XmlHeader_NoRoot == << Text("<?xml version=\"1.0\" encoding=\"utf-8\"?>\n") >>

XmlHeader == << Text("<?xml version=\"1.0\" encoding=\"utf-8\"?>\n"), Text("<tv>\n") >>
XmlFooter == << Text("</tv>\n") >>

\* a missing attribute passes for a member
NotIn_MissingIsMember(tvg_id, ids) == tvg_id # None /\ tvg_id[1] \notin ids

\* tvg_id not in valid_tvg_ids
NotIn(tvg_id, ids) == tvg_id = None \/ tvg_id[1] \notin ids

\* the key also names the source: programmes are told apart per source
ProgKey_PerSource(tvg_id, start_time, stop_time) ==
    ToString(src) \o "_" \o Str(tvg_id) \o "_" \o Str(start_time) \o "_" \o Str(stop_time)

\* f"{tvg_id}_{start_time}_{stop_time}"
ProgKey(tvg_id, start_time, stop_time) ==
    Str(tvg_id) \o "_" \o Str(start_time) \o "_" \o Str(stop_time)

Bump(counters, name) == [counters EXCEPT ![name] = @ + 1]

\* lines 298-299: the output file is opened and the header written
OpenOutput ==
    /\ pc = "open"
    /\ sink' = "open"
    /\ output' = output \o XmlHeader
    /\ pc' = "sources"
    /\ UNCHANGED << config_vars, clock_vars, resolver_vars, fetch_vars, src,
                    seen_channels, seen_programmes, stats, locals, consumed, outcome,
                    attempted >>

\* line 298: gzip.open raises, the exception leaves filter_and_build_epg
OpenOutputFails ==
    /\ pc = "open"
    /\ pc' = "fatal"
    /\ UNCHANGED << config_vars, clock_vars, resolver_vars, fetch_vars, src, sink,
                    merge_vars, outcome, attempted >>

\* lines 301-302, 244-246: the next source, its fetch begins
NextSource ==
    /\ pc = "sources"
    /\ src < Len(epg_urls)
    /\ src' = src + 1
    /\ attempted' = Append(attempted, epg_urls[src + 1])
    /\ caller' = "epg"
    /\ attempt' = 1
    /\ status' = "none"
    /\ pc' = "fetch"
    /\ UNCHANGED << config_vars, clock_vars, resolver_vars, response, leaked, sink,
                    merge_vars, outcome >>

\* lines 247-249: no response, the source is skipped
SkipSource ==
    /\ pc = "fetched"
    /\ caller = "epg"
    /\ response = "none"
    /\ outcome' = "fetch_failed"
    /\ caller' = "none"
    /\ attempt' = 0
    /\ status' = "none"
    /\ pc' = "sources"
    /\ UNCHANGED << config_vars, clock_vars, resolver_vars, response, leaked, src, sink,
                    merge_vars, attempted >>

\* lines 247, 251-260, 160-168: a response, stream_parse_epg is called on its stream
\* (through gzip.GzipFile when the URL ends in .gz) and zeroes its counters
BeginParse ==
    /\ pc = "fetched"
    /\ caller = "epg"
    /\ response # "none"
    /\ \E gz \in {EndsWith(epg_urls[src], ".gz")} : locals' = ZeroLocals
    /\ attempt' = 0
    /\ status' = "none"
    /\ pc' = "iterparse"
    /\ UNCHANGED << config_vars, clock_vars, resolver_vars, caller, response, leaked, src,
                    sink, output, seen_channels, seen_programmes, stats, consumed, outcome,
                    attempted >>

\* a channel is written ahead of the elements already written
HandleChannel_Hoisted(elem) ==
    LET tvg_id == Get(elem, "id")
    IN  /\ stats' = Bump(stats, "total_channels_in_sources")
        /\ IF valid_tvg_ids # {} /\ NotIn(tvg_id, valid_tvg_ids)
           THEN /\ locals' = Bump(locals, "channels_filtered")
                /\ UNCHANGED << seen_channels, output >>
           ELSE IF tvg_id \notin seen_channels
           THEN /\ seen_channels' = seen_channels \cup {tvg_id}
                /\ output' = SubSeq(output, 1, 2) \o << Written(elem) >>
                                \o SubSeq(output, 3, Len(output))
                /\ locals' = Bump(locals, "channels_added")
           ELSE UNCHANGED << seen_channels, output, locals >>
        /\ UNCHANGED seen_programmes

\* the allow-list is consulted also when it is empty
HandleChannel_EmptyFilters(elem) ==
    LET tvg_id == Get(elem, "id")
    IN  /\ stats' = Bump(stats, "total_channels_in_sources")
        /\ IF NotIn(tvg_id, valid_tvg_ids)
           THEN /\ locals' = Bump(locals, "channels_filtered")
                /\ UNCHANGED << seen_channels, output >>
           ELSE IF tvg_id \notin seen_channels
           THEN /\ seen_channels' = seen_channels \cup {tvg_id}
                /\ output' = Append(output, Written(elem))
                /\ locals' = Bump(locals, "channels_added")
           ELSE UNCHANGED << seen_channels, output, locals >>
        /\ UNCHANGED seen_programmes

\* lines 174-187: a channel element
HandleChannel(elem) ==
    LET tvg_id == Get(elem, "id")
    IN  /\ stats' = Bump(stats, "total_channels_in_sources")
        /\ IF valid_tvg_ids # {} /\ NotIn(tvg_id, valid_tvg_ids)
           THEN /\ locals' = Bump(locals, "channels_filtered")
                /\ UNCHANGED << seen_channels, output >>
           ELSE IF tvg_id \notin seen_channels
           THEN /\ seen_channels' = seen_channels \cup {tvg_id}
                /\ output' = Append(output, Written(elem))
                /\ locals' = Bump(locals, "channels_added")
           ELSE UNCHANGED << seen_channels, output, locals >>
        /\ UNCHANGED seen_programmes

\* the time windows are checked before the allow-list and the dummy flag
HandleProgramme_TimeFirst(elem) ==
    LET tvg_id == Get(elem, "channel")
        start_time == Get(elem, "start")
        stop_time == Get(elem, "stop")
    IN  /\ stats' = Bump(stats, "total_programmes_in_sources")
        /\ IF is_programme_too_far_future(start_time, cfg.days_future, now)
           THEN /\ locals' = Bump(locals, "programmes_skipped_future")
                /\ UNCHANGED << seen_programmes, output >>
           ELSE IF is_programme_too_far_past(stop_time, cfg.days_past, now)
           THEN /\ locals' = Bump(locals, "programmes_skipped_past")
                /\ UNCHANGED << seen_programmes, output >>
           ELSE IF valid_tvg_ids # {} /\ NotIn(tvg_id, valid_tvg_ids)
           THEN /\ locals' = Bump(locals, "programmes_filtered_tvg")
                /\ UNCHANGED << seen_programmes, output >>
           ELSE IF is_dummy_programme(tvg_id, cfg.skip_dummy_programs)
           THEN /\ locals' = Bump(locals, "programmes_skipped_dummy")
                /\ UNCHANGED << seen_programmes, output >>
           ELSE LET prog_key == ProgKey(tvg_id, start_time, stop_time)
                IN  IF prog_key \notin seen_programmes
                    THEN /\ seen_programmes' = seen_programmes \cup {prog_key}
                         /\ output' = Append(output, Written(elem))
                         /\ locals' = Bump(locals, "programmes_added")
                    ELSE UNCHANGED << seen_programmes, output, locals >>
        /\ UNCHANGED seen_channels

\* lines 189-218: a programme element
HandleProgramme(elem) ==
    LET tvg_id == Get(elem, "channel")
        start_time == Get(elem, "start")
        stop_time == Get(elem, "stop")
    IN  /\ stats' = Bump(stats, "total_programmes_in_sources")
        /\ IF valid_tvg_ids # {} /\ NotIn(tvg_id, valid_tvg_ids)
           THEN /\ locals' = Bump(locals, "programmes_filtered_tvg")
                /\ UNCHANGED << seen_programmes, output >>
           ELSE IF is_dummy_programme(tvg_id, cfg.skip_dummy_programs)
           THEN /\ locals' = Bump(locals, "programmes_skipped_dummy")
                /\ UNCHANGED << seen_programmes, output >>
           ELSE IF is_programme_too_far_future(start_time, cfg.days_future, now)
           THEN /\ locals' = Bump(locals, "programmes_skipped_future")
                /\ UNCHANGED << seen_programmes, output >>
           ELSE IF is_programme_too_far_past(stop_time, cfg.days_past, now)
           THEN /\ locals' = Bump(locals, "programmes_skipped_past")
                /\ UNCHANGED << seen_programmes, output >>
           ELSE LET prog_key == ProgKey(tvg_id, start_time, stop_time)
                IN  IF prog_key \notin seen_programmes
                    THEN /\ seen_programmes' = seen_programmes \cup {prog_key}
                         /\ output' = Append(output, Written(elem))
                         /\ locals' = Bump(locals, "programmes_added")
                    ELSE UNCHANGED << seen_programmes, output, locals >>
        /\ UNCHANGED seen_channels

\* lines 172-218: iterparse reports the end of an element
HandleElement ==
    /\ pc = "iterparse"
    /\ Len(consumed) < MaxElems
    /\ \E elem \in ChannelElems \cup ProgrammeElems :
          /\ IF elem.tag = "channel" THEN HandleChannel(elem) ELSE HandleProgramme(elem)
          /\ consumed' = Append(consumed, [src |-> src, elem |-> elem])
    /\ UNCHANGED << config_vars, clock_vars, pc, resolver_vars, fetch_vars, src, sink,
                    outcome, attempted >>

\* lines 172-174, 189: an element that is neither a channel nor a programme
HandleOtherElement ==
    /\ pc = "iterparse"
    /\ \E elem \in OtherElems : elem.tag \notin {"channel", "programme"}
    /\ UNCHANGED vars

\* lines 224-228: the counters of this source are added to the statistics
Flushed(st, lc) ==
    [st EXCEPT !.channels_filtered_by_tvg_id = @ + lc.channels_filtered,
               !.programmes_filtered_by_tvg_id = @ + lc.programmes_filtered_tvg,
               !.programmes_filtered_by_future = @ + lc.programmes_skipped_future,
               !.programmes_filtered_by_past = @ + lc.programmes_skipped_past,
               !.programmes_filtered_by_dummy = @ + lc.programmes_skipped_dummy]

\* lines 266-268 and the return to the loop of line 301: the response is closed,
\* the counters of stream_parse_epg are gone
LeaveSource(how) ==
    /\ leaked' = leaked + Dropped("closed")
    /\ response' = "none"
    /\ locals' = ZeroLocals
    /\ outcome' = how
    /\ caller' = "none"
    /\ pc' = "sources"
    /\ UNCHANGED << config_vars, clock_vars, resolver_vars, attempt, status, src, sink,
                    output, seen_channels, seen_programmes, consumed, attempted >>

\* line 172 (the stream ends), lines 223-240, 266-268
EndOfStream ==
    /\ pc = "iterparse"
    /\ stats' = Flushed(stats, locals)
    /\ LeaveSource("ok")

\* the parse error leaves stream_parse_epg like any other exception
ParseError_Propagates ==
    /\ pc = "iterparse"
    /\ stats' = stats
    /\ LeaveSource("parse_error")

\* lines 220-240, 266-268: the stream is not well-formed
ParseError ==
    /\ pc = "iterparse"
    /\ stats' = Flushed(stats, locals)
    /\ LeaveSource("parse_error")

\* the exception leaves process_epg_source and ends the run
OtherException_Aborts ==
    /\ pc = "iterparse"
    /\ pc' = "fatal"
    /\ response' = "none"
    /\ leaked' = leaked + Dropped("closed")
    /\ UNCHANGED << config_vars, clock_vars, resolver_vars, caller, attempt, status, src, sink,
                    merge_vars, outcome, attempted >>

\* lines 262-268: reading the stream raises anything else (BadGzipFile, EOFError,
\* a broken connection); the exception leaves stream_parse_epg before line 224
OtherException ==
    /\ pc = "iterparse"
    /\ stats' = stats
    /\ LeaveSource("exception")

\* lines 304-338: the footer, the file is closed, the statistics are reported
Finish ==
    /\ pc = "sources"
    /\ src = Len(epg_urls)
    /\ output' = output \o XmlFooter
    /\ sink' = "closed"
    /\ pc' = "done"
    /\ UNCHANGED << config_vars, clock_vars, resolver_vars, fetch_vars, src,
                    seen_channels, seen_programmes, stats, locals, consumed, outcome,
                    attempted >>

Next ==
    \/ ReadIdsFile
    \/ NextPlaylist
    \/ PlaylistFetchFailed
    \/ BeginScan
    \/ ScanLine
    \/ ScanEnd
    \/ ScanError
    \/ ResolverDone
    \/ fetch_with_retry
    \/ OpenOutput
    \/ OpenOutputFails
    \/ NextSource
    \/ SkipSource
    \/ BeginParse
    \/ HandleElement
    \/ HandleOtherElement
    \/ EndOfStream
    \/ ParseError
    \/ OtherException
    \/ Finish

Spec == Init /\ [][Next]_vars

\* the fetch loop and the per-source steps are run to their end: a single thread
\* of control, no step of which waits for another
FairSpec == Spec /\ WF_vars(Next)

(***************************************************************************)
(* Vocabulary of the properties.                                           *)
(***************************************************************************)
IsElem(item) == item.kind = "elem"
IsChannel(item) == IsElem(item) /\ item.elem.tag = "channel"
IsProgramme(item) == IsElem(item) /\ item.elem.tag = "programme"

Triple(elem) == << Get(elem, "channel"), Get(elem, "start"), Get(elem, "stop") >>

\* the identifier the allow-list is asked about
IdentifierOf(elem) == IF elem.tag = "channel" THEN Get(elem, "id") ELSE Get(elem, "channel")

Last(seq) == seq[Len(seq)]
Front(seq) == SubSeq(seq, 1, Len(seq) - 1)

\* a step that handled one channel or programme element
Handled == Len(consumed') = Len(consumed) + 1
HandledElem == Last(consumed').elem

\* the elements written so far, in the order written
RECURSIVE ElemsOf(_)
ElemsOf(items) ==
    IF items = << >> THEN << >>
    ELSE IF IsElem(Head(items)) THEN << Head(items).elem >> \o ElemsOf(Tail(items))
    ELSE ElemsOf(Tail(items))

RECURSIVE IsSubsequence(_, _)
IsSubsequence(a, b) ==
    IF a = << >> THEN TRUE
    ELSE IF b = << >> THEN FALSE
    ELSE IF Head(a) = Head(b) THEN IsSubsequence(Tail(a), Tail(b))
    ELSE IsSubsequence(a, Tail(b))

Range(seq) == { seq[i] : i \in DOMAIN seq }

\* C1: the output never holds two channel elements with the same id, nor two
\* programme elements with the same (channel, start, stop), whatever the sources
\* and also when an element occurs in two sources.
C1_NoDuplicateIdentity ==
    \A i, j \in DOMAIN output :
        i # j =>
            /\ IsChannel(output[i]) /\ IsChannel(output[j])
                 => Get(output[i].elem, "id") # Get(output[j].elem, "id")
            /\ IsProgramme(output[i]) /\ IsProgramme(output[j])
                 => Triple(output[i].elem) # Triple(output[j].elem)

\* an element came in two different sources and is in the output of the finished run
C1_Witness ==
    /\ pc = "done"
    /\ \E i, j \in DOMAIN consumed :
          /\ consumed[i].src # consumed[j].src
          /\ consumed[i].elem = consumed[j].elem
          /\ Written(consumed[i].elem) \in Range(output)

\* the identifier is a member of the allow-list
Allowed(elem) == IdentifierOf(elem) # None /\ IdentifierOf(elem)[1] \in valid_tvg_ids

FilteredByIdCounter(elem) ==
    IF elem.tag = "channel" THEN "channels_filtered" ELSE "programmes_filtered_tvg"

\* C2: with a non-empty allow-list every channel and programme in the output has
\* its identifier in the allow-list, and an element whose identifier is not in it
\* (a missing attribute included) is not written and adds one to the counter of
\* the elements filtered by identifier.
C2_AllowListRespected ==
    /\ [](valid_tvg_ids # {} =>
            \A i \in DOMAIN output : IsElem(output[i]) => Allowed(output[i].elem))
    /\ [][ Handled /\ valid_tvg_ids # {} /\ ~Allowed(HandledElem) =>
             /\ output' = output
             /\ locals' = [locals EXCEPT ![FilteredByIdCounter(HandledElem)] = @ + 1]
         ]_vars

\* under a non-empty allow-list an element without identifier was counted as
\* filtered and left out, and an allowed element was written
C2_Witness ==
    /\ valid_tvg_ids # {}
    /\ pc = "iterparse"
    /\ Len(consumed) = 2
    /\ IdentifierOf(consumed[1].elem) = None
    /\ Allowed(consumed[2].elem)
    /\ locals.channels_filtered + locals.programmes_filtered_tvg = 1
    /\ ElemsOf(output) = << consumed[2].elem >>

\* C3: with an empty allow-list nothing is dropped for its identifier: the
\* counters of the channels and programmes filtered by identifier are 0 in every
\* state, those of the source being read included.
C3_EmptyAllowListFiltersNothing ==
    valid_tvg_ids = {} =>
        /\ stats.channels_filtered_by_tvg_id = 0
        /\ stats.programmes_filtered_by_tvg_id = 0
        /\ locals.channels_filtered = 0
        /\ locals.programmes_filtered_tvg = 0

\* the playlist gave no identifier, the allow-list is empty, and a channel and a
\* programme of the source are both in the output of the finished run
C3_Witness ==
    /\ pc = "done"
    /\ valid_tvg_ids = {}
    /\ playlist_urls # << >>
    /\ pl = Len(playlist_urls)
    /\ \E i, j \in DOMAIN output : IsChannel(output[i]) /\ IsProgramme(output[j])

\* the first check of lines 201-211 that matches a programme, in the order
\* identifier, dummy, future, past, dedup
FirstMatch(elem) ==
    LET tvg_id == Get(elem, "channel")
    IN  CASE valid_tvg_ids # {} /\ ~Allowed(elem) -> "programmes_filtered_tvg"
          [] is_dummy_programme(tvg_id, cfg.skip_dummy_programs) -> "programmes_skipped_dummy"
          [] is_programme_too_far_future(Get(elem, "start"), cfg.days_future, now)
               -> "programmes_skipped_future"
          [] is_programme_too_far_past(Get(elem, "stop"), cfg.days_past, now)
               -> "programmes_skipped_past"
          [] ProgKey(tvg_id, Get(elem, "start"), Get(elem, "stop")) \in seen_programmes
               -> "duplicate"
          [] OTHER -> "programmes_added"

\* C4: a programme is attributed to exactly one of filtered-by-identifier,
\* filtered-by-dummy, filtered-by-future, filtered-by-past, duplicate and added,
\* the one of the first check that matches in that order, and it is written only
\* when added.
C4_FirstMatchWins ==
    [][ Handled /\ HandledElem.tag = "programme" =>
          LET bucket == FirstMatch(HandledElem)
          IN  /\ locals' = IF bucket = "duplicate" THEN locals
                           ELSE [locals EXCEPT ![bucket] = @ + 1]
              /\ output' = IF bucket = "programmes_added"
                           THEN Append(output, Written(HandledElem)) ELSE output
      ]_vars

\* a programme that is not allow-listed and also too old was counted as filtered
\* by identifier alone
C4_Witness ==
    /\ pc = "iterparse"
    /\ consumed # << >>
    /\ LET last == Last(consumed)
       IN  /\ last.elem.tag = "programme"
           /\ last.src = src
           /\ valid_tvg_ids # {}
           /\ ~Allowed(last.elem)
           /\ is_programme_too_far_past(Get(last.elem, "stop"), cfg.days_past, now)
    /\ locals.programmes_filtered_tvg = 1
    /\ locals.programmes_skipped_past = 0
    /\ Len(ElemsOf(output)) = 0

\* an element passes the filters of lines 178 and 201-207
Passes(elem) ==
    /\ valid_tvg_ids = {} \/ Allowed(elem)
    /\ elem.tag = "programme" =>
          /\ ~is_dummy_programme(Get(elem, "channel"), cfg.skip_dummy_programs)
          /\ ~is_programme_too_far_future(Get(elem, "start"), cfg.days_future, now)
          /\ ~is_programme_too_far_past(Get(elem, "stop"), cfg.days_past, now)

\* what lines 180 and 210-211 tell elements apart by
DedupKey(elem) ==
    IF elem.tag = "channel" THEN << "channel", Str(Get(elem, "id")), Get(elem, "id") = None >>
    ELSE << "programme",
            ProgKey(Get(elem, "channel"), Get(elem, "start"), Get(elem, "stop")), FALSE >>

\* of a history, the elements that passed the filters, the first of each key
RECURSIVE KeptOf(_)
KeptOf(history) ==
    IF history = << >> THEN << >>
    ELSE LET before == KeptOf(Front(history))
             elem == Last(history).elem
         IN  IF Passes(elem) /\ DedupKey(elem) \notin { DedupKey(k) : k \in Range(before) }
             THEN Append(before, elem)
             ELSE before

\* C5: after a parse error the output holds exactly the elements handled so far
\* that passed the filters and the dedup, and the run goes on from the state the
\* end of that source's stream would have left: nothing written is removed,
\* nothing more of that source is written, the sets, the statistics and the
\* position in the source list are those of a source that ended there.
C5_ParseErrorEndsTheSourceOnly ==
    /\ [](ElemsOf(output) = KeptOf(consumed))
    /\ [][ pc = "iterparse" /\ outcome' = "parse_error" /\ pc' # "iterparse" =>
             /\ output' = output
             /\ consumed' = consumed
             /\ seen_channels' = seen_channels
             /\ seen_programmes' = seen_programmes
             /\ stats' = Flushed(stats, locals)
             /\ locals' = ZeroLocals
             /\ src' = src
             /\ response' = "none"
             /\ pc' = "sources"
         ]_vars

\* the first source broke off with a parse error after an element that was
\* written, and the second source has an element written after it
C5_Witness ==
    /\ pc = "iterparse"
    /\ src = 2
    /\ outcome = "parse_error"
    /\ Len(consumed) = 2
    /\ consumed[1].src = 1
    /\ consumed[2].src = 2
    /\ ElemsOf(output) = << consumed[1].elem, consumed[2].elem >>

\* C6: fetch_with_retry makes at most max_retries attempts and ends; a successful
\* attempt returns its response at once; None is returned only after max_retries
\* failed attempts, and process_epg_source then writes nothing and leaves both
\* dedup sets as they are.
C6_BoundedRetry ==
    /\ [](pc \in {"fetch", "fetched"} => attempt \in 1..max_retries)
    /\ [](pc = "fetched" /\ response = "none" => attempt = max_retries)
    /\ [][ pc = "fetch" /\ response' = "open" => pc' = "fetched" /\ attempt' = attempt ]_vars
    /\ [][ pc = "fetch" /\ pc' = "fetch" => attempt' = attempt + 1 /\ response' = "none" ]_vars
    /\ [][ pc = "fetched" /\ caller = "epg" /\ response = "none" =>
             /\ output' = output
             /\ consumed' = consumed
             /\ seen_channels' = seen_channels
             /\ seen_programmes' = seen_programmes
             /\ pc' = "sources"
         ]_vars
    /\ (pc = "fetch") ~> (pc = "fetched")

\* the fetch of a source failed four times and the fifth attempt returned a response
C6_Witness ==
    /\ pc = "fetched"
    /\ caller = "epg"
    /\ response = "open"
    /\ attempt = max_retries

\* C7: once the output file is open no failure of a source ends the run: every
\* URL of the list is passed to process_epg_source once, in list order, whatever
\* the outcomes of the sources, and the run reaches the step after the last one.
C7_RunSurvivesSources ==
    /\ [](pc = "fatal" => sink = "unopened")
    /\ [](Len(attempted) <= Len(epg_urls) /\ attempted = SubSeq(epg_urls, 1, Len(attempted)))
    /\ [](pc = "done" => attempted = epg_urls)
    /\ (sink = "open") ~> (pc = "done")

\* a run of two sources is over: the first gave an element, the second broke off
\* with an exception that is not a parse error
C7_Witness ==
    /\ pc = "done"
    /\ Len(attempted) = 2
    /\ outcome = "exception"
    /\ consumed # << >>
    /\ consumed[1].src = 1

\* C8: the envelope is written once: the declaration and the root's open tag come
\* first, before any source is fetched and before any element; the root's close
\* tag comes last, at the end of the run, and nothing is written after it.
C8_EnvelopeOnce ==
    /\ [](sink = "unopened" => output = << >> /\ attempted = << >>)
    /\ [](sink # "unopened" =>
            /\ Len(output) >= 2
            /\ output[1] = [kind |-> "text", text |-> "<?xml version=\"1.0\" encoding=\"utf-8\"?>\n"]
            /\ output[2] = [kind |-> "text", text |-> "<tv>\n"])
    /\ [](\A i \in 3..Len(output) :
            ~IsElem(output[i]) =>
                /\ i = Len(output)
                /\ output[i] = [kind |-> "text", text |-> "</tv>\n"]
                /\ sink = "closed")
    /\ [](pc = "done" =>
            /\ sink = "closed"
            /\ Len(output) >= 3
            /\ ~IsElem(Last(output)))
    /\ [][ sink = "closed" => output' = output ]_vars

\* a run of two sources is over, the fetch of the last failed and no source gave
\* an element: the output is the envelope alone
C8_Witness ==
    /\ pc = "done"
    /\ Len(attempted) = 2
    /\ outcome = "fetch_failed"
    /\ consumed = << >>
    /\ Len(output) = 3

\* C9: in the output no channel element comes after a programme element.
C9_ChannelsBeforeProgrammes ==
    \A i, j \in DOMAIN output :
        i < j => ~(IsProgramme(output[i]) /\ IsChannel(output[j]))

\* C10: the elements of the output are a subsequence of the elements handled,
\* which come source by source in list order; an element is written when it is
\* handled, after everything written before.
C10_EncounterOrder ==
    /\ [](IsSubsequence(ElemsOf(output), [i \in DOMAIN consumed |-> consumed[i].elem]))
    /\ [](\A i, j \in DOMAIN consumed : i < j => consumed[i].src <= consumed[j].src)
    /\ [][ ElemsOf(output') # ElemsOf(output) =>
             /\ Handled
             /\ HandledElem.tag \in {"channel", "programme"}
             /\ Last(consumed').src = src
             /\ IsElem(Last(output'))
             /\ Front(output') = output
             /\ Last(output').elem = HandledElem
         ]_vars

\* the finished run wrote a programme of the first source and then a channel of
\* the second source
C10_Witness ==
    /\ pc = "done"
    /\ Len(consumed) = 2
    /\ consumed[1].src = 1
    /\ consumed[2].src = 2
    /\ consumed[1].elem.tag = "programme"
    /\ consumed[2].elem.tag = "channel"
    /\ ElemsOf(output) = << consumed[1].elem, consumed[2].elem >>

(***************************************************************************)
(* The filters of lines 201-208 on one programme of a source that is being *)
(* parsed: the options, the clock and the allow-list are those of the run, *)
(* the programme has any identifier, start and stop of the pools below,    *)
(* and the source may carry it twice.                                      *)
(***************************************************************************)
\* the options a run can be started with
FilterConfigs == [days_future : 0..2, days_past : 0..2, skip_dummy_programs : BOOLEAN]

\* datetime.now() to the microsecond
FilterClocks == { StartOfRun, [StartOfRun EXCEPT !.us = 1] }

FilterAllowLists == { {}, {"a", "Dummy1", "myDUMMY", "dummy2"} }

FilterIds ==
    { None, Some("a"), Some("b"), Some("Dummy1"), Some("myDUMMY"), Some("dummy2") }

\* start attributes: missing, empty, text, nine digits, the 31st of November, and
\* timestamps from the time of the run to three days later
FilterStarts ==
    { None, Some(""), Some("soon"), Some("203011021"), Some("20261131120000"),
      Some("20261102120000"), Some("20261103120000"), Some("20261103120001"),
      Some("20261104120000 +0100"), Some("20261104120001"), Some("20261105120000") }

\* stop attributes: missing, empty, text, ten digits, and timestamps from three
\* days before the run to the time of the run
FilterStops ==
    { None, Some(""), Some("later"), Some("2026110212"),
      Some("20261102120000"), Some("20261101120000"), Some("20261101115959"),
      Some("20261031120000 +0000"), Some("20261031115959"), Some("20261030120000") }

FilterProgrammes ==
    { Programme(c, s, e) : c \in FilterIds, s \in FilterStarts, e \in FilterStops }

\* the run is at line 172 of its first source: the allow-list is resolved, the
\* output open, the response fetched, nothing parsed yet
FilterInit ==
    /\ cfg \in FilterConfigs
    /\ epg_urls = SubSeq(EpgUrlPool, 1, 1)
    /\ playlist_urls = PlaylistUrlPool
    /\ now \in FilterClocks
    /\ pc = "iterparse"
    /\ valid_tvg_ids \in FilterAllowLists
    /\ pl = Len(playlist_urls)
    /\ tvg_ids = {}
    /\ nlines = 0
    /\ caller = "epg"
    /\ attempt = 1
    /\ status = "200"
    /\ response = "open"
    /\ leaked = 0
    /\ src = 1
    /\ sink = "open"
    /\ output = XmlHeader
    /\ seen_channels = {}
    /\ seen_programmes = {}
    /\ stats = ZeroStats
    /\ locals = ZeroLocals
    /\ consumed = << >>
    /\ outcome = "none"
    /\ attempted = epg_urls

\* lines 189-218: the programme, or the same programme once more
FilterProgramme ==
    /\ pc = "iterparse"
    /\ \E elem \in FilterProgrammes :
          /\ consumed = << >> \/ (Len(consumed) = 1 /\ consumed[1].elem = elem)
          /\ HandleProgramme(elem)
          /\ consumed' = Append(consumed, [src |-> src, elem |-> elem])
    /\ UNCHANGED << config_vars, clock_vars, pc, resolver_vars, fetch_vars, src, sink,
                    outcome, attempted >>

FilterNext ==
    \/ FilterProgramme
    \/ EndOfStream

FilterSpec == FilterInit /\ [][FilterNext]_vars

(***************************************************************************)
(* Vocabulary of the properties of the filters.  What a timestamp of the   *)
(* pools means is written down here by hand, from the calendar, not taken  *)
(* from the parser of the model.                                           *)
(***************************************************************************)
\* the texts of the pools whose first fourteen characters are a timestamp
\* YYYYMMDDHHMMSS, each with the seconds from 2026-11-02 12:00:00, the second the
\* run's clock shows, to the time it names
Timestamps ==
    { << "20261102120000", 0 >>,
      << "20261103120000", 86400 >>, << "20261103120001", 86401 >>,
      << "20261104120000 +0100", 172800 >>, << "20261104120001", 172801 >>,
      << "20261105120000", 259200 >>,
      << "20261101120000", -86400 >>, << "20261101115959", -86401 >>,
      << "20261031120000 +0000", -172800 >>, << "20261031115959", -172801 >>,
      << "20261030120000", -259200 >> }

\* the attribute is there and is a timestamp
IsTimestamp(v) == v # None /\ \E t \in Timestamps : t[1] = v[1]

SecondsFromRun(v) == (CHOOSE t \in Timestamps : t[1] = v[1])[2]

\* strictly later than now + n days; now is the clock's second and now.us microseconds
LaterThanCutoff(v, n) == IsTimestamp(v) /\ SecondsFromRun(v) > n * 86400

\* strictly earlier than now - m days
EarlierThanCutoff(v, m) ==
    /\ IsTimestamp(v)
    /\ \/ SecondsFromRun(v) < 0 - m * 86400
       \/ SecondsFromRun(v) = 0 - m * 86400 /\ now.us > 0

\* the attribute is a string of fewer than fourteen digits
ShortDigits(v) == v # None /\ Len(v[1]) \in 1..13 /\ AllDigits(v[1])

\* the step handled a programme and added one to the counter
HandledProgramme == Handled /\ HandledElem.tag = "programme"
CountedAs(counter) == locals'[counter] = locals[counter] + 1

\* the step got past the identifier and the dummy check
PastIdAndDummy ==
    /\ HandledProgramme
    /\ ~CountedAs("programmes_filtered_tvg")
    /\ ~CountedAs("programmes_skipped_dummy")

\* no programme with the triple of the one handled is in the output yet
TripleIsNew ==
    \A i \in DOMAIN output :
        IsProgramme(output[i]) => Triple(output[i].elem) # Triple(HandledElem)

FutureWindowStep ==
    PastIdAndDummy =>
        /\ CountedAs("programmes_skipped_future")
             <=> cfg.days_future > 0 /\ LaterThanCutoff(Get(HandledElem, "start"), cfg.days_future)
        /\ CountedAs("programmes_skipped_future") => output' = output

PastWindowStep ==
    PastIdAndDummy /\ ~CountedAs("programmes_skipped_future") =>
        /\ CountedAs("programmes_skipped_past")
             <=> cfg.days_past > 0 /\ EarlierThanCutoff(Get(HandledElem, "stop"), cfg.days_past)
        /\ CountedAs("programmes_skipped_past") => output' = output

UnparseableStep ==
    HandledProgramme =>
        LET start == Get(HandledElem, "start")
            stop == Get(HandledElem, "stop")
        IN  /\ ~IsTimestamp(start) => ~CountedAs("programmes_skipped_future")
            /\ ~IsTimestamp(stop) => ~CountedAs("programmes_skipped_past")
            /\ PastIdAndDummy /\ ~IsTimestamp(start) /\ ~IsTimestamp(stop) =>
                  output' = IF TripleIsNew THEN Append(output, Written(HandledElem)) ELSE output

\* C11: with future window N > 0 a programme that got past the identifier and the
\* dummy check is counted as filtered-by-future, and not written, if and only if
\* its start is a timestamp strictly later than now + N days (a start at exactly
\* now + N days is kept); with N = 0 nothing is ever counted as filtered-by-future.
C11_FutureWindow ==
    /\ [](cfg.days_future = 0 =>
            locals.programmes_skipped_future = 0 /\ stats.programmes_filtered_by_future = 0)
    /\ [][FutureWindowStep]_vars

\* C12: with past window M > 0 a programme that got past the identifier, the dummy
\* and the future check is counted as filtered-by-past, and not written, if and
\* only if its stop is a timestamp strictly earlier than now - M days; with M = 0
\* nothing is ever counted as filtered-by-past.
C12_PastWindow ==
    /\ [](cfg.days_past = 0 =>
            locals.programmes_skipped_past = 0 /\ stats.programmes_filtered_by_past = 0)
    /\ [][PastWindowStep]_vars

\* C13: a programme whose start is missing or is not a timestamp is never counted
\* as filtered-by-future, one whose stop is missing or is not a timestamp never as
\* filtered-by-past, whatever the windows; when it got past the identifier and the
\* dummy check and neither is a timestamp it is written if its triple is new.
C13_UnparseableNeverFiltered == [][UnparseableStep]_vars

\* C11, C12 and C13 on the programmes none of whose attributes is a string of
\* fewer than fourteen digits: there the three hold, the boundary of each window
\* being kept.
WindowsOnFullLengthTimestamps ==
    [][ HandledProgramme /\ ~ShortDigits(Get(HandledElem, "start"))
                         /\ ~ShortDigits(Get(HandledElem, "stop"))
          => FutureWindowStep /\ PastWindowStep /\ UnparseableStep ]_vars

\* the identifiers of the pool that contain dummy in some letter case
DummyIds == { "Dummy1", "myDUMMY", "dummy2" }

IsDummyId(v) == v # None /\ v[1] \in DummyIds

\* C14: with dummy suppression enabled a programme that got past the identifier
\* check and whose channel identifier contains dummy in any letter case is counted
\* as filtered-by-dummy and not written, and no other programme is; with
\* suppression disabled nothing is ever counted as filtered-by-dummy.
C14_DummySuppression ==
    /\ [](~cfg.skip_dummy_programs =>
            locals.programmes_skipped_dummy = 0 /\ stats.programmes_filtered_by_dummy = 0)
    /\ [](cfg.skip_dummy_programs =>
            \A i \in DOMAIN output :
                IsProgramme(output[i]) => ~IsDummyId(Get(output[i].elem, "channel")))
    /\ [][ HandledProgramme /\ ~CountedAs("programmes_filtered_tvg") =>
             /\ CountedAs("programmes_skipped_dummy")
                  <=> cfg.skip_dummy_programs /\ IsDummyId(Get(HandledElem, "channel"))
             /\ CountedAs("programmes_skipped_dummy") => output' = output
         ]_vars

\* under a non-empty allow-list and with suppression enabled, a programme of the
\* allow-listed channel Dummy1 was counted as filtered-by-dummy and not written
C14_Witness ==
    /\ pc = "iterparse"
    /\ cfg.skip_dummy_programs
    /\ valid_tvg_ids # {}
    /\ Len(consumed) = 1
    /\ Get(consumed[1].elem, "channel") = Some("Dummy1")
    /\ locals.programmes_skipped_dummy = 1
    /\ ElemsOf(output) = << >>

\* with suppression disabled a programme of the channel Dummy1 was written
C14_WitnessDisabled ==
    /\ ~cfg.skip_dummy_programs
    /\ Len(consumed) = 1
    /\ Get(consumed[1].elem, "channel") = Some("Dummy1")
    /\ ElemsOf(output) = << consumed[1].elem >>

(***************************************************************************)
(* get_valid_tvg_ids alone, lines 121-146, on no playlist, one, or two.    *)
(***************************************************************************)
ResolverPlaylists == { << >>, PlaylistUrlPool, PlaylistUrlPool \o PlaylistUrlPool }

ResolverInit ==
    /\ cfg = [days_future |-> 0, days_past |-> 1, skip_dummy_programs |-> FALSE]
    /\ epg_urls = EpgUrlPool
    /\ playlist_urls \in ResolverPlaylists
    /\ now = StartOfRun
    /\ pc = "get_valid_tvg_ids"
    /\ valid_tvg_ids = {}
    /\ pl = 0
    /\ tvg_ids = {}
    /\ nlines = 0
    /\ caller = "none"
    /\ attempt = 0
    /\ status = "none"
    /\ response = "none"
    /\ leaked = 0
    /\ src = 0
    /\ sink = "unopened"
    /\ output = << >>
    /\ seen_channels = {}
    /\ seen_programmes = {}
    /\ stats = ZeroStats
    /\ locals = ZeroLocals
    /\ consumed = << >>
    /\ outcome = "none"
    /\ attempted = << >>

ResolverNext ==
    \/ ReadIdsFile
    \/ NextPlaylist
    \/ fetch_with_retry
    \/ PlaylistFetchFailed
    \/ BeginScan
    \/ ScanLine
    \/ ScanEnd
    \/ ScanError
    \/ ResolverDone

ResolverSpec == ResolverInit /\ [][ResolverNext]_vars

\* C15: every response a GET returned is closed before it goes out of scope and
\* before the run ends: none is dropped open, none is still held at the end.
C15_EveryResponseClosed ==
    /\ leaked = 0
    /\ pc \in {"done", "fatal"} => response = "none"

\* C15, what holds: a response is dropped open only where
\* extract_tvg_ids_from_playlist returns after reading a playlist; the responses
\* of failed attempts and of the sources are closed, and none is held at the end.
OnlyPlaylistResponsesLeak ==
    /\ [][ leaked' # leaked => pc = "iter_lines" /\ pc' = "playlists" /\ leaked' = leaked + 1 ]_vars
    /\ [](pc \in {"done", "fatal"} => response = "none")

\* C16: a playlist whose fetch used up the attempts, or whose lines broke off with
\* an error, adds nothing to the allow-list; one read to its end adds the
\* identifiers of its lines; and after each of them the next playlist is taken,
\* up to the last.
C16_FailedPlaylistContributesNothing ==
    /\ [][ pc = "fetched" /\ caller = "playlist" /\ response = "none" =>
             valid_tvg_ids' = valid_tvg_ids /\ pc' = "playlists" ]_vars
    /\ [][ pc = "iter_lines" /\ pc' # "iter_lines" =>
             /\ pc' = "playlists"
             /\ valid_tvg_ids' = IF outcome' = "scan_error" THEN valid_tvg_ids
                                 ELSE valid_tvg_ids \cup tvg_ids ]_vars
    /\ [](pc = "open" => pl = Len(playlist_urls))

\* C16, what holds: the playlist whose fetch failed adds nothing, the one whose
\* lines broke off adds the identifiers of the lines read before the error, and
\* the next playlist is taken in both cases.
PlaylistFailureIsSurvived ==
    /\ [][ pc = "fetched" /\ caller = "playlist" /\ response = "none" =>
             valid_tvg_ids' = valid_tvg_ids /\ pc' = "playlists" ]_vars
    /\ [][ pc = "iter_lines" /\ pc' # "iter_lines" =>
             pc' = "playlists" /\ valid_tvg_ids' = valid_tvg_ids \cup tvg_ids ]_vars
    /\ [](pc = "open" => pl = Len(playlist_urls))

(***************************************************************************)
(* The attempts of fetch_with_retry, lines 73-97.                          *)
(***************************************************************************)
\* the status codes of the 2xx class among those requests.get answers with here
SuccessClass == { "200", "204" }

\* one attempt: requests.get was called and either raised or answered
OneAttempt == pc = "fetch" /\ (pc' # pc \/ attempt' # attempt \/ status' # status)

\* C17: an attempt fails exactly when requests.get raised or answered outside the
\* 2xx class.  An answer of the 2xx class ends the loop with its response
\* returned open; an answer outside it is closed, and, like an error raised, is
\* followed by the next attempt or by the failure signal.
C17_FailedIffErrorOrNon2xx ==
    [][ OneAttempt =>
          IF status' \in SuccessClass
          THEN pc' = "fetched" /\ response' = "open" /\ attempt' = attempt
          ELSE /\ response' = "none"
               /\ leaked' = leaked
               /\ \/ pc' = "fetch" /\ attempt' = attempt + 1
                  \/ pc' = "fetched" /\ attempt' = attempt ]_vars

\* C17, what holds: the answer 200 alone ends the loop with a response; every
\* other answer is closed and counts as a failed attempt, as an error raised does.
OnlyStatus200IsReturned ==
    [][ OneAttempt =>
          IF status' = "200"
          THEN pc' = "fetched" /\ response' = "open" /\ attempt' = attempt
          ELSE /\ response' = "none"
               /\ leaked' = leaked
               /\ \/ pc' = "fetch" /\ attempt' = attempt + 1 /\ attempt < max_retries
                  \/ pc' = "fetched" /\ attempt' = attempt /\ attempt = max_retries ]_vars

(***************************************************************************)
(* The statistics reported at lines 312-338 against what the run did.      *)
(***************************************************************************)
\* the places in a history of the elements of the given tag
SeenOf(history, tag) == { i \in DOMAIN history : history[i].elem.tag = tag }

\* the elements of the given tag among the items written
WrittenOf(items, tag) == { i \in DOMAIN items : IsElem(items[i]) /\ items[i].elem.tag = tag }

\* the elements that passed the checks after an earlier one with the same key did
DuplicatesOf(history, tag) ==
    { i \in SeenOf(history, tag) :
        /\ Passes(history[i].elem)
        /\ \E j \in SeenOf(history, tag) :
              /\ j < i
              /\ Passes(history[j].elem)
              /\ DedupKey(history[j].elem) = DedupKey(history[i].elem) }

ProgrammesFiltered(st) ==
    st.programmes_filtered_by_tvg_id + st.programmes_filtered_by_dummy
        + st.programmes_filtered_by_future + st.programmes_filtered_by_past

\* the programmes and the channels counted in the totals of st and found neither
\* among its filtered ones nor among the written nor among the duplicates
ProgrammesUnaccounted(st, history, items) ==
    st.total_programmes_in_sources
        - ( ProgrammesFiltered(st) + Cardinality(WrittenOf(items, "programme"))
            + Cardinality(DuplicatesOf(history, "programme")) )

ChannelsUnaccounted(st, history, items) ==
    st.total_channels_in_sources
        - ( st.channels_filtered_by_tvg_id + Cardinality(WrittenOf(items, "channel"))
            + Cardinality(DuplicatesOf(history, "channel")) )

\* C18: when the run is over the total of the programmes is the sum of the four
\* counters of filtered programmes, the programmes written and the programmes
\* discarded as duplicates, and the total of the channels is the sum of the
\* channels filtered, written and discarded as duplicates, whatever ended the
\* reading of each source.
C18_StatisticsAccountForEveryElement ==
    pc = "done" =>
        /\ ProgrammesUnaccounted(stats, consumed, output) = 0
        /\ ChannelsUnaccounted(stats, consumed, output) = 0

\* C18, what holds: every element counted is a filtered, a written or a duplicate
\* one as long as the counters of the source being read are taken in, and the
\* account breaks nowhere but where an exception other than a parse error ends
\* the reading of a source, by the elements that source had filtered.
AccountBreaksOnlyOnOtherException ==
    [][ LET before == Flushed(stats, locals)
            after == Flushed(stats', locals')
        IN  \/ /\ ProgrammesUnaccounted(after, consumed', output')
                    = ProgrammesUnaccounted(before, consumed, output)
               /\ ChannelsUnaccounted(after, consumed', output')
                    = ChannelsUnaccounted(before, consumed, output)
            \/ /\ pc = "iterparse" /\ outcome' = "exception"
               /\ ProgrammesUnaccounted(after, consumed', output')
                    = ProgrammesUnaccounted(before, consumed, output)
                        + ProgrammesFiltered(Flushed(ZeroStats, locals))
               /\ ChannelsUnaccounted(after, consumed', output')
                    = ChannelsUnaccounted(before, consumed, output) + locals.channels_filtered
      ]_vars

(***************************************************************************)
(* The key of a programme, line 210, over attributes that are missing, that *)
(* read None and that hold the separator.                                  *)
(***************************************************************************)
KeyIds == { None, Some("None"), Some("a"), Some("a_b") }
KeyStarts == { None, Some("None"), Some("b_c"), Some("c"), Some("20261102130000") }
KeyStops == { None, Some("None"), Some("c_d"), Some("d"), Some("20261102140000") }

KeyProgrammes == { Programme(c, s, e) : c \in KeyIds, s \in KeyStarts, e \in KeyStops }

KeyAllowLists == { {}, {"None", "a", "a_b"} }

\* the run is at line 172 of its first source, as in FilterInit
KeyInit ==
    /\ cfg \in Configs
    /\ epg_urls = SubSeq(EpgUrlPool, 1, 1)
    /\ playlist_urls = PlaylistUrlPool
    /\ now = StartOfRun
    /\ pc = "iterparse"
    /\ valid_tvg_ids \in KeyAllowLists
    /\ pl = Len(playlist_urls)
    /\ tvg_ids = {}
    /\ nlines = 0
    /\ caller = "epg"
    /\ attempt = 1
    /\ status = "200"
    /\ response = "open"
    /\ leaked = 0
    /\ src = 1
    /\ sink = "open"
    /\ output = XmlHeader
    /\ seen_channels = {}
    /\ seen_programmes = {}
    /\ stats = ZeroStats
    /\ locals = ZeroLocals
    /\ consumed = << >>
    /\ outcome = "none"
    /\ attempted = epg_urls

\* lines 189-218: the first programme of the stream, and the one after it
KeyProgramme ==
    /\ pc = "iterparse"
    /\ Len(consumed) <= 1
    /\ \E elem \in KeyProgrammes :
          /\ HandleProgramme(elem)
          /\ consumed' = Append(consumed, [src |-> src, elem |-> elem])
    /\ UNCHANGED << config_vars, clock_vars, pc, resolver_vars, fetch_vars, src, sink,
                    outcome, attempted >>

KeyNext ==
    \/ KeyProgramme
    \/ EndOfStream

KeySpec == KeyInit /\ [][KeyNext]_vars

\* the step handled a programme and counted it under none of the four checks
PassedTheChecks ==
    /\ PastIdAndDummy
    /\ ~CountedAs("programmes_skipped_future")
    /\ ~CountedAs("programmes_skipped_past")

\* C19: a programme that passed the four checks is left out of the output only
\* when a programme with the same channel, start and stop, a missing attribute
\* being equal to a missing one alone, is in the output already; otherwise it is
\* written.  So two programmes handled with different triples have different keys.
C19_DuplicateOnlyOfSameTriple ==
    /\ [][ PassedTheChecks =>
             IF TripleIsNew THEN output' = Append(output, Written(HandledElem))
             ELSE output' = output ]_vars
    /\ [](\A i, j \in DOMAIN consumed :
             Triple(consumed[i].elem) # Triple(consumed[j].elem)
                 => DedupKey(consumed[i].elem) # DedupKey(consumed[j].elem))

\* C19, what holds: a programme that passed the four checks is left out only when
\* a programme with the same key is in the output already, and the key tells the
\* triples apart whose attributes are present and hold no separator.
Plain(v) == v # None /\ \A i \in 1..Len(v[1]) : SubSeq(v[1], i, i) # "_"
PlainTriple(elem) == \A i \in 1..3 : Plain(Triple(elem)[i])

DuplicateOnlyOfSameKey ==
    /\ [][ PassedTheChecks =>
             IF \A i \in DOMAIN output :
                    IsProgramme(output[i]) => DedupKey(output[i].elem) # DedupKey(HandledElem)
             THEN output' = Append(output, Written(HandledElem))
             ELSE output' = output ]_vars
    /\ [](\A i, j \in DOMAIN consumed :
             /\ PlainTriple(consumed[i].elem) /\ PlainTriple(consumed[j].elem)
             /\ Triple(consumed[i].elem) # Triple(consumed[j].elem)
             => DedupKey(consumed[i].elem) # DedupKey(consumed[j].elem))

====
